---- MODULE Spec2Model ----
(***************************************************************************)
(* Model of the expense tracker's state manager (src/src/App.tsx, the      *)
(* complete App component of lines 197-525).  The state is the component's *)
(* useState cells plus the two localStorage blobs; every action is one     *)
(* event handler followed by the effects React runs for the cells it set.  *)
(***************************************************************************)
EXTENDS Integers, Sequences, FiniteSets, TLC

VARIABLES data, categories, selectedMonth, incomeInput, expTitle, expAmount,
          expCategory, editingExpId, newCategoryInput, editingCategory,
          storeData, storeCats, now, mounted, steps, stepLimit, lastOp

vars == <<data, categories, selectedMonth, incomeInput, expTitle, expAmount,
          expCategory, editingExpId, newCategoryInput, editingCategory,
          storeData, storeCats, now, mounted, steps, stepLimit, lastOp>>

(* ------------------------------ bounds --------------------------------- *)

\* user events (after mount) in one run
MaxSteps == 4

\* user events in one of the longer runs that follow the expense form
FormSteps == 6

\* expenses one month may hold before the model stops appending
MaxExpenses == 2

(* --------------------------- value universes --------------------------- *)

\* getCurrentMonth(): the calendar month of this session
CurrentMonth == "2026-11"

\* a month of an earlier session, present only in a persisted Dataset
EarlierMonth == "2026-10"

\* what the user types into the title field
TitleInputs == {"", "Lunch", "Taxi"}

\* what the amount field (type="number") can hold: "" or a numeral
AmountInputs == {"", "0", "5"}

\* what the income field yields through Number(e.target.value)
IncomeInputs == {0, 10}

\* what the user types into the category-name field
NameInputs == {"", " ", "Rent", " Rent ", "Food"}

\* editingExpId === null
NoId == -1

\* editingCategory === null
NoCat == "<null>"

\* Date.now() when the session starts; persisted ids are older
SessionStart == 5

DefaultCategories == <<"Food", "Travel", "Shopping", "Bills">>

DefaultMonth == [income |-> 0, expenses |-> <<>>]

(* ------------------------- conversions (pure) -------------------------- *)

\* trim forgotten: the raw input is used
TrimNone(s) == s

\* String.prototype.trim on the strings of NameInputs and category names
Trim(s) ==
  CASE s = " " -> ""
    [] s = " Rent " -> "Rent"
    [] OTHER -> s

\* Number(expAmount) on the strings the amount field can hold
Number(s) ==
  CASE s = "0" -> 0
    [] s = "3" -> 3
    [] s = "5" -> 5
    [] OTHER -> 0

\* expense.amount.toString()
AmountToString(n) ==
  CASE n = 0 -> "0"
    [] n = 3 -> "3"
    [] n = 5 -> "5"
    [] OTHER -> "?"

\* JS truthiness of number | null and of string | null
TruthyId(id) == id # NoId /\ id # 0
TruthyStr(s) == s # NoCat /\ s # ""

(* --------------------------- sequence helpers -------------------------- *)

RECURSIVE SeqSum(_)
\* reduce((s, e) => s + e.amount, 0)
SeqSum(es) == IF es = <<>> THEN 0 ELSE Head(es).amount + SeqSum(Tail(es))

\* Array.prototype.includes
Includes(s, x) == \E i \in 1..Len(s) : s[i] = x

\* categories[0] || ""
FirstCategory(cats) == IF cats = <<>> THEN "" ELSE cats[1]

\* {...prev, [m]: rec}
Put(d, m, rec) == [k \in (DOMAIN d) \cup {m} |-> IF k = m THEN rec ELSE d[k]]

\* prev[selectedMonth] || { income: 0, expenses: [] }
MonthOr(d, m) == IF m \in DOMAIN d THEN d[m] ELSE DefaultMonth

\* data[selectedMonth]?.income || 0
IncomeOf(d, m) == IF m \in DOMAIN d THEN d[m].income ELSE 0

\* data[selectedMonth]?.expenses || []
ExpensesOf(d, m) == IF m \in DOMAIN d THEN d[m].expenses ELSE <<>>

(* ------------------------------ persistence ---------------------------- *)

Absent == [kind |-> "absent"]
Unparsable == [kind |-> "unparsable"]

\* JSON.stringify(data): one entry per month key
EncodeData(d) ==
  [kind |-> "object",
   entries |-> {<<m, d[m].income, d[m].expenses>> : m \in DOMAIN d}]

\* JSON.stringify(categories)
EncodeCats(c) == [kind |-> "array", items |-> c]

\* JSON.parse of an object blob
DecodeData(b) ==
  [m \in {e[1] : e \in b.entries} |->
     LET e == CHOOSE x \in b.entries : x[1] = m
     IN [income |-> e[2], expenses |-> e[3]]]

\* useState<Data> initializer
LoadData(b) ==
  IF b.kind = "object" THEN DecodeData(b)
  ELSE [m \in {CurrentMonth} |-> DefaultMonth]

\* the fallback list forgotten
LoadCategoriesEmptyFallback(b) ==
  IF b.kind = "array" THEN b.items ELSE <<>>

\* useState<string[]> initializer
LoadCategories(b) ==
  IF b.kind = "array" THEN b.items ELSE DefaultCategories

Exp(i, t, a, c) == [id |-> i, title |-> t, amount |-> a, category |-> c]

\* a month record an earlier session left for EarlierMonth
EarlierRecord == [income |-> 10, expenses |-> <<Exp(1, "Lunch", 5, "Food")>>]

\* Datasets an earlier session can have persisted: without the current
\* month, with a populated current month, and with an expense of a category
\* the user had added
PersistedDatasets ==
  { [m \in {EarlierMonth} |-> EarlierRecord],
    [m \in {EarlierMonth, CurrentMonth} |->
       IF m = EarlierMonth THEN EarlierRecord
       ELSE [income |-> 10,
             expenses |-> <<Exp(2, "Taxi", 3, "Travel"),
                            Exp(3, "Lunch", 5, "Food")>>]],
    [m \in {CurrentMonth} |->
       [income |-> 0, expenses |-> <<Exp(4, "Taxi", 5, "Rent")>>]] }

\* CategoryLists an earlier session can have persisted
PersistedCategories == { <<"Food", "Travel">> }

\* every category an expense of d carries
CategoriesIn(d) ==
  UNION {{d[m].expenses[i].category : i \in 1..Len(d[m].expenses)} : m \in DOMAIN d}

(* ------------------------------- effects ------------------------------- *)

\* the effect missing: a month without a record stays without one
EnsureMonthNever(d, m) == d

\* the guard forgotten: the selected month is always re-created
EnsureMonthReset(d, m) == Put(d, m, DefaultMonth)

\* ensure-month effect: if (!data[selectedMonth]) setData(...)
EnsureMonth(d, m) == IF m \in DOMAIN d THEN d ELSE Put(d, m, DefaultMonth)

\* the persistence effect given an empty dependency array: it runs at mount only
PersistDataAtMountOnly(changed, d, old) == IF ~mounted THEN EncodeData(d) ELSE old

\* persistence effect of data: localStorage.setItem(STORAGE_DATA, ...)
PersistData(changed, d, old) == IF changed THEN EncodeData(d) ELSE old

\* persistence effect of categories: localStorage.setItem(STORAGE_CATS, ...)
PersistCats(changed, c, old) == IF changed THEN EncodeCats(c) ELSE old

\* the reset effect missing: the form keeps the category it had
ResetExpCategoryMissing(changed, c, cat) == cat

\* expCategory reset effect: setExpCategory(categories[0] || "") on [categories]
ResetExpCategory(changed, c, cat) == IF changed THEN FirstCategory(c) ELSE cat

\* One render cycle after a handler: the handler left the cells at the given
\* values, dSet/cSet/mSet tell whether data, categories, selectedMonth got a
\* new value (the effects' dependency arrays), and the effects run until no
\* cell changes.
Commit(op, d, dSet, c, cSet, m, mSet, inc, title, amount, cat, eid, nci, ecat, t) ==
  LET d2 == IF dSet \/ mSet THEN EnsureMonth(d, m) ELSE d
      dChanged == dSet \/ d2 # d
  IN /\ data' = d2
     /\ categories' = c
     /\ selectedMonth' = m
     /\ storeData' = PersistData(dChanged, d2, storeData)
     /\ storeCats' = PersistCats(cSet, c, storeCats)
     /\ incomeInput' = IF dChanged \/ mSet THEN IncomeOf(d2, m) ELSE inc
     /\ expCategory' = ResetExpCategory(cSet, c, cat)
     /\ expTitle' = title
     /\ expAmount' = amount
     /\ editingExpId' = eid
     /\ newCategoryInput' = nci
     /\ editingCategory' = ecat
     /\ now' = t
     /\ lastOp' = op
     /\ stepLimit' = stepLimit

(* -------------------------------- Init --------------------------------- *)

\* the state the useState initializers leave, with the run's event budget
InitState(limit) ==
  /\ storeData \in {Absent, Unparsable} \cup {EncodeData(d) : d \in PersistedDatasets}
  /\ storeCats \in {Absent, Unparsable} \cup {EncodeCats(c) : c \in PersistedCategories}
  \* both blobs were written by one session: a readable list names every
  \* category of the persisted expenses
  /\ (storeData.kind = "object" /\ storeCats.kind = "array")
       => CategoriesIn(DecodeData(storeData)) \subseteq
            {storeCats.items[i] : i \in 1..Len(storeCats.items)}
  /\ data = LoadData(storeData)
  /\ categories = LoadCategories(storeCats)
  /\ selectedMonth = CurrentMonth
  /\ incomeInput = IncomeOf(data, selectedMonth)
  /\ expTitle = ""
  /\ expAmount = ""
  /\ expCategory = FirstCategory(categories)
  /\ editingExpId = NoId
  /\ newCategoryInput = ""
  /\ editingCategory = NoCat
  /\ now = SessionStart
  /\ mounted = FALSE
  /\ steps = 0
  /\ stepLimit = limit
  /\ lastOp = [op |-> "init", arg |-> "", res |-> "ok", id |-> NoId]

Init == InitState(MaxSteps)

\* first render committed: every effect runs once
Mount ==
  /\ ~mounted
  /\ mounted' = TRUE
  /\ steps' = steps
  /\ Commit([op |-> "mount", arg |-> "", res |-> "ok", id |-> NoId], data, TRUE, categories, TRUE, selectedMonth, TRUE,
            incomeInput, expTitle, expAmount, expCategory, editingExpId,
            newCategoryInput, editingCategory, now)

(* ----------------------------- user events ---------------------------- *)

\* a user event is handled once the component is mounted
UserEvent ==
  /\ mounted
  /\ steps < stepLimit
  /\ steps' = steps + 1
  /\ mounted' = mounted

Op(name, arg, res) == [op |-> name, arg |-> arg, res |-> res, id |-> NoId]

\* the outcome of a handler called with an expense id
OpId(name, arg, res, id) == [op |-> name, arg |-> arg, res |-> res, id |-> id]

monthExpenses == ExpensesOf(data, selectedMonth)

\* <select value={selectedMonth}> over Object.keys(data)
SelectMonth(m) ==
  /\ UserEvent
  /\ m \in DOMAIN data
  /\ m # selectedMonth
  /\ Commit(Op("selectMonth", m, "ok"), data, FALSE, categories, FALSE, m, TRUE,
            incomeInput, expTitle, expAmount, expCategory, editingExpId,
            newCategoryInput, editingCategory, now)

\* income <input type="number"> onChange
SetIncomeInput(n) ==
  /\ UserEvent
  /\ n # incomeInput
  /\ Commit(Op("input", "", "ok"), data, FALSE, categories, FALSE,
            selectedMonth, FALSE, n, expTitle, expAmount, expCategory,
            editingExpId, newCategoryInput, editingCategory, now)

\* title <input> onChange
SetExpTitle(s) ==
  /\ UserEvent
  /\ s # expTitle
  /\ Commit(Op("input", "", "ok"), data, FALSE, categories, FALSE,
            selectedMonth, FALSE, incomeInput, s, expAmount, expCategory,
            editingExpId, newCategoryInput, editingCategory, now)

\* amount <input type="number"> onChange
SetExpAmount(s) ==
  /\ UserEvent
  /\ s # expAmount
  /\ Commit(Op("input", "", "ok"), data, FALSE, categories, FALSE,
            selectedMonth, FALSE, incomeInput, expTitle, s, expCategory,
            editingExpId, newCategoryInput, editingCategory, now)

\* category <select> onChange, over categories.map(...)
SetExpCategory(c) ==
  /\ UserEvent
  /\ Includes(categories, c)
  /\ c # expCategory
  /\ Commit(Op("input", "", "ok"), data, FALSE, categories, FALSE,
            selectedMonth, FALSE, incomeInput, expTitle, expAmount, c,
            editingExpId, newCategoryInput, editingCategory, now)

\* category-name <input> onChange
SetNewCategoryInput(s) ==
  /\ UserEvent
  /\ s # newCategoryInput
  /\ Commit(Op("input", "", "ok"), data, FALSE, categories, FALSE,
            selectedMonth, FALSE, incomeInput, expTitle, expAmount, expCategory,
            editingExpId, s, editingCategory, now)

\* the spread of the month's record forgotten: the expenses are lost
SaveIncomeFresh(d, m, inc) == Put(d, m, [income |-> inc, expenses |-> <<>>])

\* { ...prev, [selectedMonth]: { ...(prev[selectedMonth] || default), income } }
SaveIncome(d, m, inc) ==
  Put(d, m, [income |-> inc, expenses |-> MonthOr(d, m).expenses])

handleSaveIncome ==
  /\ UserEvent
  /\ LET d == SaveIncome(data, selectedMonth, incomeInput)
     IN Commit(Op("saveIncome", "", "ok"), d, TRUE, categories, FALSE,
               selectedMonth, FALSE, incomeInput, expTitle, expAmount,
               expCategory, editingExpId, newCategoryInput, editingCategory, now)

\* the edited expense is removed and re-appended instead of mapped in place
UpdateExpensesAtEnd(es, id, title, amount, cat) ==
  LET Keep(e) == e.id # id
      Hit(e) == e.id = id
  IN SelectSeq(es, Keep) \o
       [i \in 1..Len(SelectSeq(es, Hit)) |->
          Exp(id, title, amount, cat)]

\* the edited expense rebuilt with a fresh Date.now() id
UpdateExpensesNewId(es, id, title, amount, cat) ==
  [i \in 1..Len(es) |->
     IF es[i].id = id THEN Exp(now + 1, title, amount, cat) ELSE es[i]]

\* an update that finds no expense with the id appends one instead
UpdateExpensesUpsert(es, id, title, amount, cat) ==
  IF \E i \in 1..Len(es) : es[i].id = id
  THEN [i \in 1..Len(es) |->
          IF es[i].id = id THEN Exp(es[i].id, title, amount, cat) ELSE es[i]]
  ELSE Append(es, Exp(id, title, amount, cat))

\* expenses.map(e => e.id === editingExpId ? {...e, title, amount, category} : e)
UpdateExpenses(es, id, title, amount, cat) ==
  [i \in 1..Len(es) |->
     IF es[i].id = id THEN Exp(es[i].id, title, amount, cat) ELSE es[i]]

\* the amount check forgotten
IncompleteNoAmount(title, amount, cat) == title = "" \/ cat = ""

\* !expTitle || !expAmount || !expCategory
Incomplete(title, amount, cat) == title = "" \/ amount = "" \/ cat = ""

handleAddOrUpdateExpense ==
  /\ UserEvent
  /\ IF Incomplete(expTitle, expAmount, expCategory)
     THEN Commit(Op("submit", "", "noop"), data, FALSE, categories, FALSE,
                 selectedMonth, FALSE, incomeInput, expTitle, expAmount,
                 expCategory, editingExpId, newCategoryInput, editingCategory, now)
     ELSE LET month == MonthOr(data, selectedMonth)
              expenses == month.expenses
          IN IF TruthyId(editingExpId)
             THEN LET updated == UpdateExpenses(expenses, editingExpId, expTitle,
                                                Number(expAmount), expCategory)
                      d == Put(data, selectedMonth,
                               [income |-> month.income, expenses |-> updated])
                  IN Commit(Op("submit", "update", "ok"), d, TRUE, categories, FALSE,
                            selectedMonth, FALSE, incomeInput, "", "",
                            FirstCategory(categories), NoId, newCategoryInput,
                            editingCategory, now)
             ELSE \E t \in {now, now + 1} :
                    /\ Len(expenses) < MaxExpenses
                    /\ LET newExp == Exp(t, expTitle, Number(expAmount), expCategory)
                           d == Put(data, selectedMonth,
                                    [income |-> month.income,
                                     expenses |-> Append(expenses, newExp)])
                       IN Commit(Op("submit", "add", "ok"), d, TRUE, categories,
                                 FALSE, selectedMonth, FALSE, incomeInput, "", "",
                                 FirstCategory(categories), NoId, newCategoryInput,
                                 editingCategory, t)

\* Edit button of the i-th listed expense
handleEditExpense(i) ==
  /\ UserEvent
  /\ i \in 1..Len(monthExpenses)
  /\ LET e == monthExpenses[i]
     IN Commit(Op("editExpense", "", "ok"), data, FALSE, categories, FALSE,
               selectedMonth, FALSE, incomeInput, e.title,
               AmountToString(e.amount), e.category, e.id, newCategoryInput,
               editingCategory, now)

\* the filter predicate inverted: only the matching expense is kept
RemoveExpenseInverted(es, id) == LET Keep(e) == e.id = id IN SelectSeq(es, Keep)

\* (month.expenses || []).filter(e => e.id !== id)
RemoveExpense(es, id) == LET Keep(e) == e.id # id IN SelectSeq(es, Keep)

\* Delete button of the i-th listed expense
handleDeleteExpense(i) ==
  /\ UserEvent
  /\ i \in 1..Len(monthExpenses)
  /\ LET id == monthExpenses[i].id
         month == MonthOr(data, selectedMonth)
         d == Put(data, selectedMonth,
                  [income |-> month.income,
                   expenses |-> RemoveExpense(month.expenses, id)])
     IN Commit(OpId("deleteExpense", "", "ok", id), d, TRUE, categories, FALSE,
               selectedMonth, FALSE, incomeInput, expTitle, expAmount,
               expCategory, editingExpId, newCategoryInput, editingCategory, now)

\* the Add button is rendered while editingCategory is falsy
handleAddCategory ==
  /\ UserEvent
  /\ ~TruthyStr(editingCategory)
  /\ LET v == Trim(newCategoryInput)
     IN IF v = ""
        THEN Commit(Op("addCategory", newCategoryInput, "noop"), data, FALSE, categories, FALSE,
                    selectedMonth, FALSE, incomeInput, expTitle, expAmount,
                    expCategory, editingExpId, newCategoryInput, editingCategory, now)
        ELSE IF Includes(categories, v)
        THEN Commit(Op("addCategory", newCategoryInput, "alert"), data, FALSE, categories, FALSE,
                    selectedMonth, FALSE, incomeInput, expTitle, expAmount,
                    expCategory, editingExpId, newCategoryInput, editingCategory, now)
        ELSE Commit(Op("addCategory", newCategoryInput, "ok"), data, FALSE,
                    Append(categories, v), TRUE, selectedMonth, FALSE,
                    incomeInput, expTitle, expAmount, expCategory, editingExpId,
                    "", editingCategory, now)

\* Edit button of a listed category
startEditCategory(cat) ==
  /\ UserEvent
  /\ Includes(categories, cat)
  /\ Commit(Op("startEditCategory", cat, "ok"), data, FALSE, categories, FALSE,
            selectedMonth, FALSE, incomeInput, expTitle, expAmount, expCategory,
            editingExpId, cat, cat, now)

\* prev.map(c => c === editingCategory ? v : c)
RenameInList(cats, old, v) ==
  [i \in 1..Len(cats) |-> IF cats[i] = old THEN v ELSE cats[i]]

\* the cascade applied to the selected month only
RenameInDataSelectedOnly(d, old, v) ==
  [m \in DOMAIN d |->
     [income |-> d[m].income,
      expenses |->
        [i \in 1..Len(d[m].expenses) |->
           LET ex == d[m].expenses[i]
           IN IF m = selectedMonth /\ ex.category = old
              THEN Exp(ex.id, ex.title, ex.amount, v)
              ELSE ex]]]

\* the JSON deep copy of prev with every matching expense re-categorised
RenameInData(d, old, v) ==
  LET copy == DecodeData(EncodeData(d))
  IN [m \in DOMAIN copy |->
        [income |-> copy[m].income,
         expenses |->
           [i \in 1..Len(copy[m].expenses) |->
              LET ex == copy[m].expenses[i]
              IN IF ex.category = old
                 THEN Exp(ex.id, ex.title, ex.amount, v)
                 ELSE ex]]]

\* the exemption of the category's own name forgotten
NameTakenNoSelf(cats, v, old) == Includes(cats, v)

\* the duplicate check forgotten
NameTakenNever(cats, v, old) == FALSE

\* categories.includes(v) && v !== editingCategory
NameTaken(cats, v, old) == Includes(cats, v) /\ v # old

\* the Save button is rendered while editingCategory is truthy
handleSaveEditedCategory ==
  /\ UserEvent
  /\ TruthyStr(editingCategory)
  /\ LET v == Trim(newCategoryInput)
     IN IF v = "" \/ ~TruthyStr(editingCategory)
        THEN Commit(Op("renameCategory", editingCategory, "noop"), data, FALSE, categories,
                    FALSE, selectedMonth, FALSE, incomeInput, expTitle, expAmount,
                    expCategory, editingExpId, newCategoryInput, editingCategory,
                    now)
        ELSE IF NameTaken(categories, v, editingCategory)
        THEN Commit(Op("renameCategory", editingCategory, "alert"), data, FALSE, categories,
                    FALSE, selectedMonth, FALSE, incomeInput, expTitle, expAmount,
                    expCategory, editingExpId, newCategoryInput, editingCategory,
                    now)
        ELSE Commit(Op("renameCategory", editingCategory, "ok"),
                    RenameInData(data, editingCategory, v), TRUE,
                    RenameInList(categories, editingCategory, v), TRUE,
                    selectedMonth, FALSE, incomeInput, expTitle, expAmount,
                    expCategory, editingExpId, "", NoCat, now)

\* the guard looking at the selected month only
UsedInSelectedMonth(d, cat) ==
  \E i \in 1..Len(ExpensesOf(d, selectedMonth)) :
    ExpensesOf(d, selectedMonth)[i].category = cat

\* Object.values(data).some(m => (m.expenses || []).some(e => e.category === cat))
Used(d, cat) ==
  \E m \in DOMAIN d : \E i \in 1..Len(d[m].expenses) : d[m].expenses[i].category = cat

\* prev.filter(c => c !== cat)
RemoveCategory(cats, cat) == LET Keep(c) == c # cat IN SelectSeq(cats, Keep)

\* the clearing forgotten: the edit target survives its category
TargetAfterDeleteKept(ecat, cat) == ecat

\* if (editingCategory === cat) setEditingCategory(null)
TargetAfterDelete(ecat, cat) == IF ecat = cat THEN NoCat ELSE ecat

\* Delete button of a listed category
handleDeleteCategory(cat) ==
  /\ UserEvent
  /\ Includes(categories, cat)
  /\ IF Used(data, cat)
     THEN Commit(Op("deleteCategory", cat, "alert"), data, FALSE, categories,
                 FALSE, selectedMonth, FALSE, incomeInput, expTitle, expAmount,
                 expCategory, editingExpId, newCategoryInput, editingCategory, now)
     ELSE Commit(Op("deleteCategory", cat, "ok"), data, FALSE,
                 RemoveCategory(categories, cat), TRUE, selectedMonth, FALSE,
                 incomeInput, expTitle, expAmount, expCategory, editingExpId,
                 IF editingCategory = cat THEN "" ELSE newCategoryInput,
                 TargetAfterDelete(editingCategory, cat), now)

(* --------------------------- derived values ---------------------------- *)

\* the total taken over every month
totalExpenseAllMonths ==
  LET RECURSIVE All(_)
      All(M) == IF M = {} THEN 0
                ELSE LET m == CHOOSE x \in M : TRUE
                     IN SeqSum(data[m].expenses) + All(M \ {m})
  IN All(DOMAIN data)

totalExpense == SeqSum(monthExpenses)

remaining == IncomeOf(data, selectedMonth) - totalExpense

\* zero-valued buckets dropped
chartDataNonZero ==
  LET ex == ExpensesOf(data, selectedMonth)
      all == [i \in 1..Len(categories) |->
                LET Keep(e) == e.category = categories[i]
                IN [name |-> categories[i], value |-> SeqSum(SelectSeq(ex, Keep))]]
      NonZero(b) == b.value # 0
  IN SelectSeq(all, NonZero)

\* categories.map(cat => ({name: cat, value: ex.filter(...).reduce(...)}))
chartData ==
  LET ex == ExpensesOf(data, selectedMonth)
  IN [i \in 1..Len(categories) |->
        LET Keep(e) == e.category = categories[i]
        IN [name |-> categories[i], value |-> SeqSum(SelectSeq(ex, Keep))]]

(* ------------------------------ behaviour ------------------------------ *)

AllNames == {"Food", "Travel", "Shopping", "Bills", "Rent"}

Next ==
  \/ Mount
  \/ \E m \in {EarlierMonth, CurrentMonth} : SelectMonth(m)
  \/ \E n \in IncomeInputs : SetIncomeInput(n)
  \/ \E s \in TitleInputs : SetExpTitle(s)
  \/ \E s \in AmountInputs : SetExpAmount(s)
  \/ \E c \in AllNames : SetExpCategory(c)
  \/ \E s \in NameInputs : SetNewCategoryInput(s)
  \/ handleSaveIncome
  \/ handleAddOrUpdateExpense
  \/ \E i \in 1..MaxExpenses : handleEditExpense(i)
  \/ \E i \in 1..MaxExpenses : handleDeleteExpense(i)
  \/ handleAddCategory
  \/ \E c \in AllNames : startEditCategory(c)
  \/ handleSaveEditedCategory
  \/ \E c \in AllNames : handleDeleteCategory(c)

Spec == Init /\ [][Next]_vars

\* every expense's category is a listed name
AllListed == CategoriesIn(data) \subseteq {categories[i] : i \in 1..Len(categories)}

\* Longer runs from the start states whose expenses all carry listed
\* categories, with one value per text field.
InitListed == InitState(FormSteps) /\ AllListed

NextForm ==
  \/ Mount
  \/ \E m \in {EarlierMonth, CurrentMonth} : SelectMonth(m)
  \/ SetExpTitle("Lunch")
  \/ SetExpAmount("5")
  \/ \E c \in AllNames : SetExpCategory(c)
  \/ SetNewCategoryInput("Rent")
  \/ handleAddOrUpdateExpense
  \/ \E i \in 1..MaxExpenses : handleEditExpense(i)
  \/ \E i \in 1..MaxExpenses : handleDeleteExpense(i)
  \/ handleAddCategory
  \/ \E c \in AllNames : startEditCategory(c)
  \/ handleSaveEditedCategory
  \/ \E c \in AllNames : handleDeleteCategory(c)

SpecForm == InitListed /\ [][NextForm]_vars

\* the same runs with a clock that has advanced at every addition
NextFormTick == NextForm /\ (lastOp'.arg = "add" => now' > now)

SpecFormTick == InitListed /\ [][NextFormTick]_vars

(* ------------------------------ properties ----------------------------- *)

\* the expenses a Dataset holds for a month, none when it has no record
RecordedExpenses(d, m) == IF m \in DOMAIN d THEN d[m].expenses ELSE <<>>

\* some expense of some month of d carries category c
Referenced(d, c) ==
  \E m \in DOMAIN d : \E i \in 1..Len(d[m].expenses) : d[m].expenses[i].category = c

\* the sum of the amounts of es at the positions of I
RECURSIVE AmountAt(_, _)
AmountAt(es, I) ==
  IF I = {} THEN 0
  ELSE LET i == CHOOSE x \in I : TRUE IN es[i].amount + AmountAt(es, I \ {i})

\* s without its p-th element
Without(s, p) == SubSeq(s, 1, p - 1) \o SubSeq(s, p + 1, Len(s))

\* C1: a successful rename puts newName at oldName's position of CategoryList
\* and, in every month, re-categorises exactly the expenses that carried
\* oldName; ids, titles, amounts, incomes, order and every other expense stay.
C1_RenameCascades ==
  [][(lastOp'.op = "renameCategory" /\ lastOp'.res = "ok") =>
       LET old == editingCategory
           new == Trim(newCategoryInput)
       IN /\ \E p \in 1..Len(categories) :
               /\ categories[p] = old
               /\ categories' = [categories EXCEPT ![p] = new]
          /\ DOMAIN data' = DOMAIN data
          /\ \A m \in DOMAIN data :
               /\ data'[m].income = data[m].income
               /\ Len(data'[m].expenses) = Len(data[m].expenses)
               /\ \A i \in 1..Len(data[m].expenses) :
                    LET e == data[m].expenses[i]
                        f == data'[m].expenses[i]
                    IN /\ f.id = e.id
                       /\ f.title = e.title
                       /\ f.amount = e.amount
                       /\ f.category = IF e.category = old THEN new ELSE e.category
    ]_vars

\* "Food" was renamed to "Rent": both months' Food expenses now carry Rent and
\* the Travel expense of the selected month is as it was
C1_Witness ==
  /\ lastOp = Op("renameCategory", "Food", "ok")
  /\ ~Includes(categories, "Food")
  /\ categories[1] = "Rent"
  /\ selectedMonth = CurrentMonth
  /\ EarlierMonth \in DOMAIN data
  /\ data[EarlierMonth].expenses = <<Exp(1, "Lunch", 5, "Rent")>>
  /\ data[CurrentMonth].expenses =
       <<Exp(2, "Taxi", 3, "Travel"), Exp(3, "Lunch", 5, "Rent")>>

\* C2: deleting a category some expense of any month references changes
\* neither CategoryList nor Dataset; deleting an unreferenced one removes just
\* that name, keeps the order of the others and leaves Dataset alone.
C2_DeleteGuard ==
  [][lastOp'.op = "deleteCategory" =>
       LET name == lastOp'.arg
       IN /\ data' = data
          /\ IF Referenced(data, name)
             THEN categories' = categories
             ELSE \E p \in 1..Len(categories) :
                    /\ categories[p] = name
                    /\ categories' = Without(categories, p)
    ]_vars

\* the delete of "Food" was rejected although no expense of the selected
\* month carries it: the reference is in the other month
C2_Witness ==
  /\ lastOp = Op("deleteCategory", "Food", "alert")
  /\ Includes(categories, "Food")
  /\ selectedMonth = CurrentMonth
  /\ \A i \in 1..Len(monthExpenses) : monthExpenses[i].category # "Food"
  /\ EarlierMonth \in DOMAIN data
  /\ data[EarlierMonth].expenses[1].category = "Food"

\* C3: selecting a month (the initial selection at mount included) keeps an
\* existing record as it is, creates {income: 0, expenses: []} for a key
\* without a record, and neither removes nor changes any other month.
C3_MonthMaterialization ==
  [][lastOp'.op \in {"selectMonth", "mount"} =>
       LET m == selectedMonth'
       IN /\ DOMAIN data' = (DOMAIN data) \cup {m}
          /\ \A k \in DOMAIN data : data'[k] = data[k]
          /\ m \notin DOMAIN data => data'[m] = [income |-> 0, expenses |-> <<>>]
    ]_vars

\* the populated current month was selected again after the other month
C3_Witness ==
  /\ lastOp = Op("selectMonth", CurrentMonth, "ok")
  /\ steps >= 2
  /\ selectedMonth = CurrentMonth
  /\ data[CurrentMonth].income = 10
  /\ Len(data[CurrentMonth].expenses) = 2
  /\ EarlierMonth \in DOMAIN data

\* C4: a submit with title, amount and category filled in rewrites the
\* expense with the edit target's id in place (same id, same position, same
\* length) when an edit target is active, and otherwise appends exactly one
\* expense with the submitted fields after the existing ones; either way the
\* edit target is null and title and amount are empty afterwards.
C4_SubmitExpense ==
  [][(lastOp'.op = "submit" /\ expTitle # "" /\ expAmount # "" /\ expCategory # "") =>
       LET es == RecordedExpenses(data, selectedMonth)
           fs == RecordedExpenses(data', selectedMonth)
       IN /\ IF editingExpId # NoId
             THEN /\ Len(fs) = Len(es)
                  /\ \A i \in 1..Len(es) :
                       IF es[i].id = editingExpId
                       THEN fs[i] = [id |-> es[i].id, title |-> expTitle,
                                     amount |-> Number(expAmount),
                                     category |-> expCategory]
                       ELSE fs[i] = es[i]
             ELSE /\ Len(fs) = Len(es) + 1
                  /\ SubSeq(fs, 1, Len(es)) = es
                  /\ fs[Len(fs)].title = expTitle
                  /\ fs[Len(fs)].amount = Number(expAmount)
                  /\ fs[Len(fs)].category = expCategory
          /\ editingExpId' = NoId
          /\ expTitle' = ""
          /\ expAmount' = ""
    ]_vars

\* the second expense of the month was edited to the title "Taxi": it is
\* still second, with its id, and the form is cleared
C4_Witness ==
  /\ lastOp = Op("submit", "update", "ok")
  /\ selectedMonth = CurrentMonth
  /\ monthExpenses = <<Exp(2, "Taxi", 3, "Travel"), Exp(3, "Taxi", 5, "Food")>>
  /\ editingExpId = NoId
  /\ expTitle = ""
  /\ expAmount = ""

\* C5: a submit with an empty title, amount or category changes nothing:
\* Dataset, CategoryList, edit target and form fields are as before.
C5_SubmitIncomplete ==
  [][(lastOp'.op = "submit" /\ (expTitle = "" \/ expAmount = "" \/ expCategory = "")) =>
       /\ data' = data
       /\ categories' = categories
       /\ editingExpId' = editingExpId
       /\ expTitle' = expTitle
       /\ expAmount' = expAmount
       /\ expCategory' = expCategory
    ]_vars

\* a submit was made with a title but no amount
C5_Witness ==
  /\ lastOp = Op("submit", "", "noop")
  /\ expTitle = "Lunch"
  /\ expAmount = ""
  /\ expCategory # ""

\* C6: addCategory changes nothing when the trimmed name is empty or already
\* listed, and otherwise appends the trimmed name after the existing names;
\* Dataset is never changed.
C6_AddCategory ==
  [][lastOp'.op = "addCategory" =>
       LET v == IF newCategoryInput \in {" ", ""} THEN ""
                ELSE IF newCategoryInput = " Rent " THEN "Rent"
                ELSE newCategoryInput
       IN /\ data' = data
          /\ IF v = "" \/ (\E i \in 1..Len(categories) : categories[i] = v)
             THEN categories' = categories
             ELSE categories' = categories \o <<v>>
    ]_vars

\* " Rent " was typed and "Rent" is now the last name of the list
C6_Witness ==
  /\ lastOp = Op("addCategory", " Rent ", "ok")
  /\ Len(categories) >= 3
  /\ categories[Len(categories)] = "Rent"
  /\ categories[1] = "Food"

\* C7: a rename is rejected, CategoryList and Dataset unchanged, when the
\* trimmed new name is empty or is listed and differs from the old name; a
\* rename to the category's own name is accepted and leaves the contents of
\* both as they were.
C7_RenameRejected ==
  [][lastOp'.op = "renameCategory" =>
       LET old == editingCategory
           v == Trim(newCategoryInput)
       IN /\ (v = "" \/ ((\E i \in 1..Len(categories) : categories[i] = v) /\ v # old))
               => /\ categories' = categories
                  /\ data' = data
                  /\ lastOp'.res # "ok"
                  /\ editingCategory' = editingCategory
          /\ (v = old /\ v # "")
               => /\ categories' = categories
                  /\ data' = data
                  /\ lastOp'.res = "ok"
                  /\ editingCategory' = NoCat
    ]_vars

\* "Food" was renamed to "Food": accepted, the list still holds it
C7_Witness ==
  /\ lastOp = Op("renameCategory", "Food", "ok")
  /\ Includes(categories, "Food")
  /\ editingCategory = NoCat
  /\ Referenced(data, "Food")

\* C8: CategoryList never holds a name twice.
C8_NoDuplicateCategories ==
  \A i, j \in 1..Len(categories) : categories[i] = categories[j] => i = j

\* a category was renamed to "Rent" in a list of several names
C8_Witness ==
  /\ lastOp.op = "renameCategory"
  /\ lastOp.res = "ok"
  /\ Len(categories) >= 2
  /\ Includes(categories, "Rent")
  /\ ~Includes(categories, lastOp.arg)

\* C9: the chart has one bucket per CategoryList name, in list order, each
\* valued with the sum of the selected month's amounts of that category; a
\* category without expense in the selected month has a bucket of value 0.
C9_ChartBuckets ==
  LET es == RecordedExpenses(data, selectedMonth)
  IN /\ Len(chartData) = Len(categories)
     /\ \A i \in 1..Len(categories) :
          /\ chartData[i].name = categories[i]
          /\ chartData[i].value =
               AmountAt(es, {k \in 1..Len(es) : es[k].category = categories[i]})

\* the earlier month is selected: Food has 5, and Travel, used only in the
\* current month, has a bucket of 0
C9_Witness ==
  /\ selectedMonth = EarlierMonth
  /\ chartData = <<[name |-> "Food", value |-> 5], [name |-> "Travel", value |-> 0]>>
  /\ CurrentMonth \in DOMAIN data
  /\ \E i \in 1..Len(data[CurrentMonth].expenses) :
       data[CurrentMonth].expenses[i].category = "Travel"

\* C10: the total is the sum of the selected month's amounts and remaining
\* is that month's income minus the total; other months contribute nothing.
C10_TotalRemaining ==
  LET es == RecordedExpenses(data, selectedMonth)
      income == IF selectedMonth \in DOMAIN data THEN data[selectedMonth].income ELSE 0
  IN /\ totalExpense = AmountAt(es, 1..Len(es))
     /\ remaining = income - AmountAt(es, 1..Len(es))

\* income 10 with expenses 3 and 5 while the other month holds an expense
C10_Witness ==
  /\ mounted
  /\ selectedMonth = CurrentMonth
  /\ Len(monthExpenses) = 2
  /\ totalExpense = 8
  /\ remaining = 2
  /\ EarlierMonth \in DOMAIN data
  /\ data[EarlierMonth].expenses # <<>>

\* C11: once the effects of the last mutation have run, the blob under
\* expense-data holds exactly the current Dataset (one entry per month, with
\* its income and its expenses in order) and the blob under
\* expense-categories holds the current CategoryList in order; loading from
\* the store reproduces both.
C11_StoreMirrorsState ==
  mounted =>
    /\ storeData.kind = "object"
    /\ {e[1] : e \in storeData.entries} = DOMAIN data
    /\ Cardinality(storeData.entries) = Cardinality(DOMAIN data)
    /\ \A e \in storeData.entries :
         /\ data[e[1]].income = e[2]
         /\ data[e[1]].expenses = e[3]
    /\ storeCats.kind = "array"
    /\ storeCats.items = categories
    /\ LoadData(storeData) = data
    /\ LoadCategories(storeCats) = categories

\* after the rename of "Food" to "Rent" both blobs hold the renamed contents
C11_Witness ==
  /\ lastOp = Op("renameCategory", "Food", "ok")
  /\ storeCats.kind = "array"
  /\ storeCats.items[1] = "Rent"
  /\ storeData.kind = "object"
  /\ <<EarlierMonth, 10, <<Exp(1, "Lunch", 5, "Rent")>>>> \in storeData.entries
  /\ data[EarlierMonth].expenses[1].category = "Rent"

\* C12: at initialization each structure is loaded on its own: an absent or
\* unparsable expense-data blob gives the single default record of the current
\* month, an absent or unparsable expense-categories blob gives the four
\* default names, and a readable blob is taken whatever happens to the other.
C12_InitFallback ==
  lastOp.op = "init" =>
    /\ storeData.kind \in {"absent", "unparsable"} =>
         /\ DOMAIN data = {CurrentMonth}
         /\ data[CurrentMonth] = [income |-> 0, expenses |-> <<>>]
    /\ storeCats.kind \in {"absent", "unparsable"} =>
         categories = <<"Food", "Travel", "Shopping", "Bills">>
    /\ storeData.kind = "object" =>
         /\ data \in PersistedDatasets
         /\ \A e \in storeData.entries :
              /\ e[1] \in DOMAIN data
              /\ data[e[1]] = [income |-> e[2], expenses |-> e[3]]
    /\ storeCats.kind = "array" => categories = storeCats.items
    /\ ENABLED Mount

\* the Dataset was read from its blob although the categories blob is
\* unparsable, and the list is the default one
C12_Witness ==
  /\ lastOp.op = "init"
  /\ storeData.kind = "object"
  /\ storeCats.kind = "unparsable"
  /\ DOMAIN data = {EarlierMonth, CurrentMonth}
  /\ Len(data[CurrentMonth].expenses) = 2
  /\ categories = <<"Food", "Travel", "Shopping", "Bills">>

\* the positions of the Dataset: a month and an index into its expenses
Positions(d) == {<<m, i>> \in (DOMAIN d) \X (1..(MaxExpenses + 1)) : i <= Len(d[m].expenses)}

\* no two expenses of the Dataset, of the same month or not, share an id
IdsDistinct(d) ==
  \A p, q \in Positions(d) :
    d[p[1]].expenses[p[2]].id = d[q[1]].expenses[q[2]].id => p = q

\* C13: with a clock that advances between additions, all expense ids of the
\* whole Dataset are pairwise distinct after every operation, and an edit or
\* a rename leaves every expense's id where it was.
C13_UniqueIds ==
  /\ IdsDistinct(data)
  /\ [][/\ IdsDistinct(data')
        /\ ((lastOp'.op \in {"submit", "renameCategory"} /\ lastOp'.arg # "add") =>
              /\ DOMAIN data' = DOMAIN data
              /\ \A m \in DOMAIN data :
                   /\ Len(data'[m].expenses) = Len(data[m].expenses)
                   /\ \A i \in 1..Len(data[m].expenses) :
                        data'[m].expenses[i].id = data[m].expenses[i].id)
      ]_vars

\* two expenses were added in this session: they carry successive clock values
C13_Witness ==
  /\ lastOp = Op("submit", "add", "ok")
  /\ Len(monthExpenses) = 2
  /\ monthExpenses[1].id = SessionStart + 1
  /\ monthExpenses[2].id = SessionStart + 2

\* C14: once the effects of initialization or of a month selection have run
\* the Dataset has a record for the selected month, and no operation removes
\* a month key.
C14_MonthKeysKept ==
  [][/\ mounted' => selectedMonth' \in DOMAIN data'
     /\ DOMAIN data \subseteq DOMAIN data'
    ]_vars

\* the persisted Dataset had no record of the current month: after the mount
\* effects it has the default one, beside the earlier month's
C14_Witness ==
  /\ lastOp.op = "mount"
  /\ selectedMonth = CurrentMonth
  /\ DOMAIN data = {EarlierMonth, CurrentMonth}
  /\ data[CurrentMonth] = [income |-> 0, expenses |-> <<>>]
  /\ data[EarlierMonth].expenses # <<>>

\* C15: deleteExpense removes from the selected month the expense with the
\* given id and keeps the others in their order; without such an expense the
\* Dataset is unchanged. The month's income, the other months and
\* CategoryList are unchanged.
C15_DeleteExpense ==
  [][lastOp'.op = "deleteExpense" =>
       LET id == lastOp'.id
           es == RecordedExpenses(data, selectedMonth)
           fs == RecordedExpenses(data', selectedMonth)
           Other(e) == e.id # id
       IN /\ fs = SelectSeq(es, Other)
          /\ (\E i \in 1..Len(es) : es[i].id = id) => Len(fs) < Len(es)
          /\ (\A i \in 1..Len(es) : es[i].id # id) => data' = data
          /\ DOMAIN data' = DOMAIN data
          /\ data'[selectedMonth].income = data[selectedMonth].income
          /\ \A m \in (DOMAIN data) \ {selectedMonth} : data'[m] = data[m]
          /\ categories' = categories
          /\ selectedMonth' = selectedMonth
    ]_vars

\* the first of the current month's two expenses was deleted: the second is
\* left, the income and the earlier month are as they were
C15_Witness ==
  /\ lastOp = OpId("deleteExpense", "", "ok", 2)
  /\ selectedMonth = CurrentMonth
  /\ monthExpenses = <<Exp(3, "Lunch", 5, "Food")>>
  /\ data[CurrentMonth].income = 10
  /\ EarlierMonth \in DOMAIN data
  /\ data[EarlierMonth] = EarlierRecord

\* C16: setIncome sets the selected month's income to the given amount and
\* leaves that month's expenses, the other months and CategoryList unchanged.
C16_SetIncome ==
  [][lastOp'.op = "saveIncome" =>
       /\ DOMAIN data' = DOMAIN data
       /\ data'[selectedMonth].income = incomeInput
       /\ data'[selectedMonth].expenses = data[selectedMonth].expenses
       /\ \A m \in (DOMAIN data) \ {selectedMonth} : data'[m] = data[m]
       /\ categories' = categories
       /\ selectedMonth' = selectedMonth
    ]_vars

\* the current month's income went from 10 to 0 and its two expenses stayed
C16_Witness ==
  /\ lastOp = Op("saveIncome", "", "ok")
  /\ selectedMonth = CurrentMonth
  /\ data[CurrentMonth].income = 0
  /\ Len(data[CurrentMonth].expenses) = 2
  /\ EarlierMonth \in DOMAIN data
  /\ data[EarlierMonth].income = 10

\* C17: from a start in which every expense's category is listed, every
\* expense of every month keeps a listed category whatever is done, and the
\* category the form would submit is a listed one (or none, with an empty
\* list): a category deleted or renamed after it was chosen is not stored.
C17_CategoriesStayListed ==
  /\ \A m \in DOMAIN data : \A i \in 1..Len(data[m].expenses) :
       \E k \in 1..Len(categories) : categories[k] = data[m].expenses[i].category
  /\ \/ expCategory = ""
     \/ \E k \in 1..Len(categories) : categories[k] = expCategory

\* an expense was added after "Travel" had left the list: it carries the
\* first listed name
C17_Witness ==
  /\ lastOp = Op("submit", "add", "ok")
  /\ steps >= 5
  /\ ~Includes(categories, "Travel")
  /\ Len(categories) >= 1
  /\ monthExpenses[Len(monthExpenses)].category = categories[1]
  /\ monthExpenses[Len(monthExpenses)].id > SessionStart - 1

\* the month counts of d' equal those of d
SameCounts(d, e) ==
  /\ DOMAIN e = DOMAIN d
  /\ \A m \in DOMAIN d : Len(e[m].expenses) = Len(d[m].expenses)

\* the selected month holds no expense with the edit target's id
TargetGone ==
  \A i \in 1..Len(RecordedExpenses(data, selectedMonth)) :
    RecordedExpenses(data, selectedMonth)[i].id # editingExpId

\* C18 as stated: any submit made while an edit target is active leaves the
\* number of expenses of every month unchanged and, when the selected month
\* has no expense with the target id, leaves the Dataset as it is while
\* clearing the form fields and the edit target.
C18_AsStated ==
  [][(lastOp'.op = "submit" /\ editingExpId # NoId) =>
       /\ SameCounts(data, data')
       /\ TargetGone =>
            /\ data' = data
            /\ expTitle' = ""
            /\ expAmount' = ""
            /\ editingExpId' = NoId
    ]_vars

\* C18, amended: a submit made while an edit target is active never appends;
\* when it is made with title, amount and category filled in and the selected
\* month has no expense with the target id, the Dataset is left as it is and
\* the form fields and the edit target are cleared.
C18_SubmitWhileEditing ==
  [][(lastOp'.op = "submit" /\ editingExpId # NoId) =>
       /\ SameCounts(data, data')
       /\ (TargetGone /\ expTitle # "" /\ expAmount # "" /\ expCategory # "") =>
            /\ data' = data
            /\ expTitle' = ""
            /\ expAmount' = ""
            /\ editingExpId' = NoId
    ]_vars

\* the month's only expense was deleted after Edit was pressed; the update
\* that followed found nothing, left the month empty and cleared the form
C18_Witness ==
  /\ lastOp = Op("submit", "update", "ok")
  /\ selectedMonth = CurrentMonth
  /\ monthExpenses = <<>>
  /\ editingExpId = NoId
  /\ expTitle = ""
  /\ expAmount = ""

\* the category edit target is unset or names a listed category
TargetListed(ecat, cats) ==
  ecat # NoCat => \E k \in 1..Len(cats) : cats[k] = ecat

\* C19: a category edit target that is set names a member of CategoryList:
\* startEditCategory sets it to a listed name, a successful delete of the
\* category being edited and a successful rename clear it, and no step leaves
\* it naming a category that is not listed.
C19_EditTargetListed ==
  /\ TargetListed(editingCategory, categories)
  /\ [][/\ TargetListed(editingCategory', categories')
        /\ lastOp'.op = "startEditCategory" =>
             /\ editingCategory' = lastOp'.arg
             /\ \E k \in 1..Len(categories) : categories[k] = lastOp'.arg
        /\ (lastOp'.op = "deleteCategory" /\ lastOp'.res = "ok"
              /\ lastOp'.arg = editingCategory) => editingCategory' = NoCat
        /\ (lastOp'.op = "renameCategory" /\ lastOp'.res = "ok") =>
             editingCategory' = NoCat
      ]_vars

\* "Travel" was deleted while "Food" is being edited: the target stays, listed
C19_Witness ==
  /\ lastOp = Op("deleteCategory", "Travel", "ok")
  /\ editingCategory = "Food"
  /\ newCategoryInput = "Food"
  /\ Includes(categories, "Food")
  /\ ~Includes(categories, "Travel")

\* the sum of the values of the buckets at the positions of I
RECURSIVE ValueAt(_, _)
ValueAt(bs, I) ==
  IF I = {} THEN 0
  ELSE LET i == CHOOSE x \in I : TRUE IN bs[i].value + ValueAt(bs, I \ {i})

\* C20: from a duplicate-free list that names every expense's category, the
\* chart's bucket values add up to the selected month's total: every expense
\* of the month falls into exactly one bucket.
C20_ChartSumsToTotal ==
  /\ ValueAt(chartData, 1..Len(chartData)) = totalExpense
  /\ \A i \in 1..Len(monthExpenses) :
       Cardinality({k \in 1..Len(chartData) :
                      chartData[k].name = monthExpenses[i].category}) = 1

\* after the rename of "Food" to "Rent" the buckets 5 and 3 add up to the 8
\* of the current month
C20_Witness ==
  /\ lastOp = Op("renameCategory", "Food", "ok")
  /\ selectedMonth = CurrentMonth
  /\ totalExpense = 8
  /\ chartData = <<[name |-> "Rent", value |-> 5], [name |-> "Travel", value |-> 3]>>

====
